---- MODULE Spec2Model ----
(***************************************************************************)
(* The feed aggregator api/news.js, in the three revisions the repository  *)
(* holds:                                                                  *)
(*   "esm"  src/api/news.js lines 1-89    (ES module, no result cache)     *)
(*   "cjs"  src/api/news.js lines 91-246  (CommonJS, cache, https get)     *)
(*   "fl"   src/unnamed/part_000          (CommonJS, cache, relevance gate)*)
(* Text is a sequence of one-character strings, so that slice,            *)
(* toLowerCase, replace, includes and startsWith are computed as the code  *)
(* computes them.  A JavaScript null / NaN is the empty tuple <<>> and a   *)
(* present value v is <<v>>.                                               *)
(***************************************************************************)
EXTENDS Integers, Sequences, FiniteSets, TLC

VARIABLES
  variant,    \* which revision of api/news.js is deployed
  now,        \* Date.now(), in milliseconds
  ticks,      \* how many times the clock has advanced
  cache,      \* the module-level cache / CACHE object {data, ts}
  req,        \* per request: where its handler invocation stands
  lastStore,  \* history: the {data, ts} object of the last cache assignment
  feeds,      \* the documents the feed servers may answer with
  clients,    \* how many requests arrive in this run
  nsrc,       \* how many entries the SOURCES list has in this run
  item,       \* parser run: the item block being parsed
  emitted,    \* parser run: what the parser pushed for it
  input,      \* dedup run: the list handed to the dedup filter
  kept,       \* dedup run: the list the filter returned
  fetch       \* transport run: per source, the state of its fetch promise

vars == <<variant, now, ticks, cache, req, lastStore, feeds, clients, nsrc, item, emitted, input, kept, fetch>>

Variants == {"esm", "cjs", "fl"}

\* ------------------------------------------------------------------ bounds
NumSources == 2
NumRequests == 2
MaxTicks == 3
MaxHops == 7
MaxInput == 3

\* ------------------------------------------------------- program constants
CACHE_TTL == 5 * 60 * 1000
SLICE_FL == 120
SLICE_CJS == 100
KEY_FL == 65
KEY_CJS == 60
KEY_ESM == 70
DESC_FL == 280
DESC_CJS == 260
DESC_ESM == 300
REDIRECTS == 5

Sources == 1..nsrc
Requests == 1..NumRequests

Null == <<>>
Some(v) == <<v>>
NaN == <<>>
isNaN(x) == x = NaN

\* -------------------------------------------------------------------- text
UPPER == <<"A","B","C","D","E","F","G","H","I","J","K","L","M",
           "N","O","P","Q","R","S","T","U","V","W","X","Y","Z">>
LOWER == <<"a","b","c","d","e","f","g","h","i","j","k","l","m",
           "n","o","p","q","r","s","t","u","v","w","x","y","z">>
DIGIT == <<"0","1","2","3","4","5","6","7","8","9">>

Range(s) == {s[i] : i \in DOMAIN s}

toLowerChar(c) ==
  IF \E i \in DOMAIN UPPER : UPPER[i] = c
  THEN LOWER[CHOOSE i \in DOMAIN UPPER : UPPER[i] = c]
  ELSE c

toLowerCase(s) == IF Len(s) = 0 THEN <<>> ELSE [i \in 1..Len(s) |-> toLowerChar(s[i])]

slice(s, n) == IF Len(s) <= n THEN s ELSE SubSeq(s, 1, n)

includes(text, w) ==
  \E i \in 0..(Len(text) - Len(w)) : SubSeq(text, i + 1, i + Len(w)) = w

startsWith(s, p) == Len(s) >= Len(p) /\ SubSeq(s, 1, Len(p)) = p

\* [a-z0-9]
IsLowerAlnum(c) == c \in Range(LOWER) \cup Range(DIGIT)
\* \w
IsWordChar(c) == c \in Range(LOWER) \cup Range(UPPER) \cup Range(DIGIT) \cup {"_"}
\* \s
IsSpace(c) == c = " "
NotSpace(c) == ~IsSpace(c)

HTTP == <<"h","t","t","p">>

\* the decimal digits of n, as String(n) writes them
RECURSIVE decimal(_)
decimal(n) == IF n < 10 THEN <<DIGIT[n + 1]>> ELSE decimal(n \div 10) \o <<DIGIT[(n % 10) + 1]>>

\* a loop over s[lo..hi] in order, threading the state st through step.  The
\* range is halved, and the state after the first half is compared with
\* itself so that it is a value before the second half starts: both keep
\* the evaluation shallow, neither changes the result.
RECURSIVE loop(_, _, _, _, _)
loop(step(_, _), s, lo, hi, st) ==
  IF lo > hi THEN st
  ELSE IF lo = hi THEN step(st, s[lo])
  ELSE LET mid == (lo + hi) \div 2
           half == loop(step, s, lo, mid, st)
       IN IF half = half THEN loop(step, s, mid + 1, hi, half) ELSE st

\* ------------------------------------------------------- relevance filter
FL_WORDS == << <<"f","l","o","r","i","d","a">>, <<"f","l"," ">> >>

CANNA_WORDS == <<
  <<"c","a","n","n","a","b","i","s">>, <<"m","a","r","i","j","u","a","n","a">>,
  <<"h","e","m","p">>, <<"m","m","j">>,
  <<"d","i","s","p","e","n","s","a","r","y">>, <<"t","h","c">>, <<"c","b","d">>,
  <<"w","e","e","d">>, <<"e","d","i","b","l","e">>,
  <<"c","u","l","t","i","v","a","t","i","o","n">>,
  <<"t","r","u","l","i","e","v","e">>, <<"c","u","r","a","l","e","a","f">>,
  <<"s","u","r","t","e","r","r","a">>, <<"f","l","u","e","n","t">>,
  <<"v","i","d","a","c","a","n","n">>, <<"c","a","n","n","a">> >>

isRelevant(title, desc) ==
  LET text == toLowerCase(title \o <<" ">> \o desc)
      hasFL == \E i \in DOMAIN FL_WORDS : includes(text, FL_WORDS[i])
      hasCanna == \E i \in DOMAIN CANNA_WORDS : includes(text, CANNA_WORDS[i])
  IN hasFL /\ hasCanna

\* ------------------------------------------------------------------ dates
\* A date text is [text, ms]: "none" the empty string, "date" a text Date
\* parses to the instant ms, "junk" a text Date cannot parse.
NoDate == [text |-> "none", ms |-> 0]
DateText(ms) == [text |-> "date", ms |-> ms]
JunkDate == [text |-> "junk", ms |-> 0]

\* new Date(s).getTime() / Date.parse(s): NaN for a text that is no date
DateParse(s) == IF s.text = "date" THEN Some(s.ms) ELSE NaN
\* d.toISOString(): a text that parses back to the same instant
toISOString(ms) == DateText(ms)
\* new Date(iso) - 0 of an ISO text
DateOf(s) == DateParse(s)[1]

\* ----------------------------------------------------------------- parsers
\* An item block is the record of what the extraction helpers return for it:
\* title, link and guid (element text, decoded and trimmed), href (the
\* href attribute of a link element), pubDate (pubDate || dc:date), and
\* description (the description's text with its tags removed).
\* For the thumbnail it also records mc and mt (the url attribute of the
\* block's media:content / media:thumbnail element, '' when there is none),
\* enclosure (the attributes of its enclosure element in document order, as
\* [name, value] records, empty when there is none) and img (the src of the
\* first img element inside the raw description, '' when there is none).

IMAGE == <<"i","m","a","g","e">>

\* the positions of e's url attributes that have a value
urlAttrs(e) == {j \in DOMAIN e : e[j].name = "url" /\ e[j].value # <<>>}

Last(S) == CHOOSE j \in S : \A k \in S : k <= j

\* part_000: /<enclosure[^>]+type="image[^"]*"[^>]+url="([^"]+)"/i, a url
\* attribute that comes after a type attribute starting with image
enclosureImageUrl(e) ==
  LET after == {j \in urlAttrs(e) :
                  \E i \in DOMAIN e : /\ i < j
                                       /\ e[i].name = "type"
                                       /\ startsWith(toLowerCase(e[i].value), IMAGE)}
  IN IF after = {} THEN <<>> ELSE e[Last(after)].value

\* news.js: /<enclosure[^>]+url="([^"]+)"/i and gattr('enclosure','url')
enclosureUrl(e) == IF urlAttrs(e) = {} THEN <<>> ELSE e[Last(urlAttrs(e))].value

\* part_000: getThumbnail(itemXml, rawDesc)
getThumbnail(b) ==
  IF b.mc # <<>> THEN b.mc
  ELSE IF b.mt # <<>> THEN b.mt
  ELSE IF enclosureImageUrl(b.enclosure) # <<>> THEN enclosureImageUrl(b.enclosure)
  ELSE IF b.img # <<>> THEN b.img
  ELSE <<>>

\* news.js (CommonJS): the if / else if chain over mc, mt, enc, imgInDesc
thumb_cjs(b) ==
  IF b.mc # <<>> THEN b.mc
  ELSE IF b.mt # <<>> THEN b.mt
  ELSE IF enclosureUrl(b.enclosure) # <<>> THEN enclosureUrl(b.enclosure)
  ELSE IF b.img # <<>> THEN b.img
  ELSE <<>>

\* news.js (ES module): gattr('media:thumbnail','url') || gattr('media:content','url')
\* || gattr('enclosure','url') || ''
thumb_esm(b) ==
  IF b.mt # <<>> THEN b.mt
  ELSE IF b.mc # <<>> THEN b.mc
  ELSE IF enclosureUrl(b.enclosure) # <<>> THEN enclosureUrl(b.enclosure)
  ELSE <<>>

\* part_000: the body of parseRSS's loop; t is what Date.now() returns
parseRSS_block(b, source, t) ==
  LET title == b.title
      link == IF b.link # <<>> THEN b.link ELSE b.guid
  IN IF title = <<>> \/ link = <<>> \/ ~startsWith(link, HTTP) THEN <<>>
     ELSE LET desc == slice(b.description, DESC_FL)
              pubDate == b.pubDate
              ts == IF pubDate.text # "none" THEN DateParse(pubDate) ELSE Some(t)
              thumb == getThumbnail(b)
          IN IF ~isRelevant(title, desc) THEN <<>>
             ELSE << [title |-> title, link |-> link, description |-> desc,
                      thumbnail |-> IF startsWith(thumb, HTTP) THEN thumb ELSE <<>>,
                      pubDate |-> pubDate,
                      _pubTimestamp |-> IF isNaN(ts) THEN t ELSE ts[1],
                      _sourceLabel |-> source] >>

\* news.js (CommonJS): the body of parseItems's loop
parseItems_block(b, label, t) ==
  LET title == b.title
      link == IF b.link # <<>> THEN b.link ELSE b.href
  IN IF title = <<>> \/ link = <<>> THEN <<>>
     ELSE LET pubDate == b.pubDate
              ts == IF pubDate.text # "none" THEN DateParse(pubDate) ELSE Some(t)
              thumb == thumb_cjs(b)
              desc == slice(b.description, DESC_CJS)
          IN << [title |-> title, link |-> link, description |-> desc,
                 thumbnail |-> IF startsWith(thumb, HTTP) THEN thumb ELSE <<>>,
                 pubDate |-> pubDate,
                 _pubTimestamp |-> IF isNaN(ts) THEN t ELSE ts[1],
                 _sourceLabel |-> label] >>

\* news.js (ES module): the body of parseRSS's loop
parseRSS_esm_block(b, source, t) ==
  LET title == b.title
      link == IF b.link # <<>> THEN b.link ELSE b.href
  IN IF title = <<>> \/ link = <<>> THEN <<>>
     ELSE LET pubDate == b.pubDate
              d == IF pubDate.text # "none" THEN DateParse(pubDate) ELSE Some(t)
          IN IF isNaN(d) THEN <<>>
             ELSE << [title |-> title, link |-> link,
                      description |-> slice(b.description, DESC_ESM),
                      thumbnail |-> thumb_esm(b),
                      pubDate |-> toISOString(d[1]),
                      sourceLabel |-> source] >>

parseBlock(v, b, source, t) ==
  CASE v = "fl" -> parseRSS_block(b, source, t)
    [] v = "cjs" -> parseItems_block(b, source, t)
    [] v = "esm" -> parseRSS_esm_block(b, source, t)

\* the while loop over the item blocks of a document, in document order
parseFrom(v, xml, source, t) ==
  loop(LAMBDA items, b : items \o parseBlock(v, b, source, t), xml, 1, Len(xml), <<>>)

parseRSS(xml, source, t) == parseFrom("fl", xml, source, t)
parseItems(xml, label, t) == parseFrom("cjs", xml, label, t)
parseRSS_esm(xml, source, t) == parseFrom("esm", xml, source, t)

\* --------------------------------------------------------- dedup and rank
\* part_000 line 173
dedupKey(title) == SelectSeq(toLowerCase(slice(title, KEY_FL)), IsLowerAlnum)
\* news.js line 230: \W keeps the underscore
dedupKey_cjs(title) == SelectSeq(toLowerCase(slice(title, KEY_CJS)), IsWordChar)
\* news.js line 79: only white space is removed
dedupKey_esm(title) == SelectSeq(toLowerCase(slice(title, KEY_ESM)), NotSpace)

keyOf(v, title) ==
  CASE v = "fl" -> dedupKey(title)
    [] v = "cjs" -> dedupKey_cjs(title)
    [] v = "esm" -> dedupKey_esm(title)

\* one call of the filter callback: st holds the Set seen and the items kept
keepStep(v, st, a) ==
  LET k == keyOf(v, a.title)
  IN IF v = "esm" /\ (a.title = <<>> \/ a.link = <<>>) THEN st
     ELSE IF k \in st.seen THEN st
     ELSE [seen |-> st.seen \cup {k}, out |-> Append(st.out, a)]

\* the filter over the items in order
keepFirst(v, items) ==
  loop(LAMBDA st, a : keepStep(v, st, a), items, 1, Len(items), [seen |-> {}, out |-> <<>>]).out

dedup(items) == keepFirst("fl", items)
dedup_cjs(items) == keepFirst("cjs", items)
dedup_esm(items) == keepFirst("esm", items)

dedupOf(v, items) ==
  CASE v = "fl" -> dedup(items)
    [] v = "cjs" -> dedup_cjs(items)
    [] v = "esm" -> dedup_esm(items)

\* what the sort comparator subtracts
timeOf(a) == IF "_pubTimestamp" \in DOMAIN a THEN a._pubTimestamp ELSE DateOf(a.pubDate)

\* (mutant) an unstable sort: an element goes before the elements of its time
insertDesc_beforeTies(acc, x) ==
  LET p == Cardinality({j \in 1..Len(acc) : timeOf(acc[j]) > timeOf(x)})
  IN SubSeq(acc, 1, p) \o <<x>> \o SubSeq(acc, p + 1, Len(acc))

\* Array.prototype.sort with (a, b) => time(b) - time(a): descending, and
\* stable, so an element goes after every element that is not older
insertDesc(acc, x) ==
  LET p == Cardinality({j \in 1..Len(acc) : timeOf(acc[j]) >= timeOf(x)})
  IN SubSeq(acc, 1, p) \o <<x>> \o SubSeq(acc, p + 1, Len(acc))

sortDesc(items) == loop(insertDesc, items, 1, Len(items), <<>>)

\* the articles of the response, from the joined list raw
articlesOf(v, raw) ==
  CASE v = "fl" -> slice(sortDesc(dedup(raw)), SLICE_FL)
    [] v = "cjs" -> slice(sortDesc(dedup_cjs(raw)), SLICE_CJS)
    [] v = "esm" -> sortDesc(dedup_esm(raw))

payloadOf(v, articles, t) ==
  [ok |-> TRUE, count |-> Len(articles),
   fetchedAt |-> IF v = "esm" THEN toISOString(t) ELSE t,
   articles |-> articles]

\* ----------------------------------------------------------------- handler
hvars == <<now, ticks, cache, req, lastStore, feeds, clients, nsrc>>
pvars == <<item, emitted>>
dvars == <<input, kept>>
fvars == <<fetch>>

StartTime == 2 * CACHE_TTL

NoResult == [status |-> "none", value |-> <<>>]
Pending == [status |-> "pending", value |-> <<>>]

Idle ==
  [pc |-> "idle", method |-> "none", at |-> 0, hit |-> FALSE, results |-> [s \in Sources |-> NoResult],
   order |-> <<>>, raw |-> <<>>, resp |-> Null]

EmptyCache == [data |-> Null, ts |-> 0]

\* (mutant) an entry exactly CACHE_TTL old still counts as fresh
isFresh_atExpiry == cache.data # Null /\ now - cache.ts <= CACHE_TTL

\* cache.data && Date.now() - cache.ts < CACHE_TTL
isFresh == cache.data # Null /\ now - cache.ts < CACHE_TTL

\* (mutant) cache.data = payload: the field is set in place, ts is left
newEntry_dataOnly(payload, t) == [cache EXCEPT !.data = Some(payload)]

\* the object literal { data: payload, ts: Date.now() } assigned to cache
newEntry(payload, t) == [data |-> Some(payload), ts |-> t]

\* (mutant) a race: the await returns once any promise has settled
allSettled_any(r) ==
  \E s \in Sources : req[r].results[s].status \in {"fulfilled", "rejected"}

\* Promise.allSettled: every promise of the request has settled
allSettled(r) ==
  \A s \in Sources : req[r].results[s].status \in {"fulfilled", "rejected"}

\* results.flatMap(r => r.status === 'fulfilled' ? r.value : []): the values in
\* the order of SOURCES
RECURSIVE flatFrom(_, _)
flatFrom(results, s) ==
  IF s > nsrc THEN <<>>
  ELSE (IF results[s].status = "fulfilled" THEN results[s].value ELSE <<>>)
       \o flatFrom(results, s + 1)

\* (mutant) the values are collected as the promises complete
flatMap_completionOrder(results, order) ==
  loop(LAMBDA acc, s : acc \o (IF results[s].status = "fulfilled" THEN results[s].value ELSE <<>>),
       order, 1, Len(order), <<>>)

flatMap(results, order) == flatFrom(results, 1)

\* request r is the next to arrive (requests are numbered in arrival order)
arrives(r) ==
  /\ r <= clients
  /\ req[r].pc = "idle"
  /\ IF r = 1 THEN TRUE ELSE req[r - 1].pc # "idle"

\* req.method === 'OPTIONS'
handler_options(r) ==
  /\ arrives(r)
  /\ req' = [req EXCEPT ![r] = [@ EXCEPT !.pc = "done", !.method = "OPTIONS", !.at = now,
                 !.resp = Some([status |-> IF variant = "esm" THEN 200 ELSE 204,
                                xcache |-> "none", body |-> Null])]]
  /\ UNCHANGED <<variant, now, ticks, cache, lastStore, feeds, clients, nsrc, pvars, dvars, fvars>>

\* Serve cache if fresh
handler_hit(r) ==
  /\ arrives(r)
  /\ variant # "esm"
  /\ isFresh
  /\ req' = [req EXCEPT ![r] = [@ EXCEPT !.pc = "done", !.method = "GET", !.at = now,
                 !.hit = TRUE,
                 !.resp = Some([status |-> 200, xcache |-> "HIT", body |-> cache.data])]]
  /\ UNCHANGED <<variant, now, ticks, cache, lastStore, feeds, clients, nsrc, pvars, dvars, fvars>>

\* otherwise start one fetch per source and await them all
handler_miss(r) ==
  /\ arrives(r)
  /\ ~(variant # "esm" /\ isFresh)
  /\ req' = [req EXCEPT ![r] = [@ EXCEPT !.pc = "fetching", !.method = "GET", !.at = now,
                 !.results = [s \in Sources |-> Pending]]]
  /\ UNCHANGED <<variant, now, ticks, cache, lastStore, feeds, clients, nsrc, pvars, dvars, fvars>>

\* the promise of source s settles: the fetch failed (ok = FALSE) or gave the
\* document xml, which is parsed at once
settledAs(ok, xml, s) ==
  CASE variant = "fl" ->
         IF ok THEN [status |-> "fulfilled", value |-> parseRSS(xml, s, now)]
         ELSE [status |-> "rejected", value |-> <<>>]
    [] variant = "cjs" ->
         IF ok THEN [status |-> "fulfilled", value |-> parseItems(xml, s, now)]
         ELSE [status |-> "rejected", value |-> <<>>]
    [] variant = "esm" ->
         \* fetchSource catches and returns []
         IF ok THEN [status |-> "fulfilled", value |-> parseRSS_esm(xml, s, now)]
         ELSE [status |-> "fulfilled", value |-> <<>>]

\* what a fetch can end in: a failure, or one of the documents
outcomes == {[ok |-> FALSE, xml |-> <<>>]} \cup {[ok |-> TRUE, xml |-> x] : x \in feeds}

settle(r, s) ==
  /\ req[r].pc = "fetching"
  /\ req[r].results[s].status = "pending"
  /\ \E o \in outcomes :
       req' = [req EXCEPT ![r] = [@ EXCEPT !.results[s] = settledAs(o.ok, o.xml, s),
                                           !.order = Append(@, s)]]
  /\ UNCHANGED <<variant, now, ticks, cache, lastStore, feeds, clients, nsrc, pvars, dvars, fvars>>

\* the rest of the handler, run in one piece once the await returns
join(r) ==
  /\ req[r].pc = "fetching"
  /\ allSettled(r)
  /\ LET raw == flatMap(req[r].results, req[r].order)
         articles == articlesOf(variant, raw)
         payload == payloadOf(variant, articles, now)
         stores == \/ variant = "fl"
                   \/ variant = "cjs" /\ Len(articles) > 0
     IN /\ req' = [req EXCEPT ![r] = [@ EXCEPT !.pc = "done", !.raw = raw,
                       !.resp = Some([status |-> 200,
                                      xcache |-> IF variant = "esm" THEN "none" ELSE "MISS",
                                      body |-> Some(payload)])]]
        /\ cache' = IF stores THEN newEntry(payload, now) ELSE cache
        /\ lastStore' = IF stores THEN Some([data |-> Some(payload), ts |-> now])
                         ELSE lastStore
  /\ UNCHANGED <<variant, now, ticks, feeds, clients, nsrc, pvars, dvars, fvars>>

\* time passes
tick ==
  /\ ticks < MaxTicks
  /\ \E d \in {1, CACHE_TTL - 1} : now' = now + d
  /\ ticks' = ticks + 1
  /\ UNCHANGED <<variant, cache, req, lastStore, feeds, clients, nsrc, pvars, dvars, fvars>>

\* ----------------------------------------------------- feeds of the model
Chars(title, ms) ==
  [title |-> title, link |-> HTTP \o <<":", "/", "/", "x">>, guid |-> <<>>, href |-> <<>>,
   pubDate |-> DateText(ms), description |-> <<>>,
   mc |-> <<>>, mt |-> <<>>, enclosure |-> <<>>, img |-> <<>>]

FlThc == <<"f","l"," ","t","h","c">>
FlThcLoud == <<"F","L"," ","T","H","C","!">>
FlCbd == <<"f","l"," ","c","b","d">>
FlHemp == <<"f","l"," ","h","e","m","p">>

\* one more distinct, relevant, valid item than the largest slice keeps
BulkSize == SLICE_FL + 1
FeedBulk == [n \in 1..BulkSize |-> Chars(FlThc \o <<" ">> \o decimal(n), n)]

FeedA == << Chars(FlThc, 10), Chars(FlCbd, 30) >>
FeedB == << Chars(FlThcLoud, 20), Chars(FlHemp, 30) >>

IdleRest ==
  /\ item = Chars(<<>>, 0) /\ emitted = Null
  /\ input = <<>> /\ kept = Null
  /\ fetch = <<>>

InitHandler ==
  /\ variant \in Variants
  /\ now = StartTime
  /\ ticks = 0
  /\ cache = EmptyCache
  /\ lastStore = Null
  /\ req = [r \in Requests |-> Idle]
  /\ IdleRest

\* concurrent requests, one configured source
Init ==
  /\ nsrc = 1
  /\ InitHandler
  /\ clients = NumRequests
  /\ feeds = {FeedA}

\* one request, several configured sources
InitJoin ==
  /\ nsrc = NumSources
  /\ InitHandler
  /\ clients = 1
  /\ feeds = {FeedA, FeedB}

Next ==
  \/ tick
  \/ \E r \in Requests : handler_options(r)
  \/ \E r \in Requests : handler_hit(r)
  \/ \E r \in Requests : handler_miss(r)
  \/ \E r \in Requests : \E s \in Sources : settle(r, s)
  \/ \E r \in Requests : join(r)

Spec == Init /\ [][Next]_vars

\* With one request the cache is still empty when it arrives, so
\* handler_hit is never enabled: the steps of such a run are these.
NextRebuild ==
  \/ tick
  \/ \E r \in Requests : handler_options(r)
  \/ \E r \in Requests : handler_miss(r)
  \/ \E r \in Requests : \E s \in Sources : settle(r, s)
  \/ \E r \in Requests : join(r)

SpecJoin == InitJoin /\ [][NextRebuild]_vars

\* one request against a feed of more items than a response may hold
InitBulk ==
  /\ nsrc = NumSources
  /\ InitHandler
  /\ clients = 1
  /\ feeds = {FeedBulk}

SpecBulk == InitBulk /\ [][NextRebuild]_vars

\* -------------------------------------------------------------- parser run
IdleHandler ==
  /\ now = StartTime /\ ticks = 0
  /\ cache = EmptyCache /\ lastStore = Null
  /\ nsrc = NumSources
  /\ req = [r \in Requests |-> Idle]
  /\ feeds = {} /\ clients = 0

Hemp == <<"h","e","m","p">>
FtpUrl == <<"f","t","p",":","/","/","x">>
HttpUrl == HTTP \o <<":","/","/","x">>
HttpsUrl == HTTP \o <<"s",":","/","/","g">>

Blocks ==
  [title : {<<>>, FlThc, Hemp},
   link : {<<>>, HttpUrl, FtpUrl},
   guid : {<<>>, HttpsUrl},
   href : {<<>>, HttpUrl},
   pubDate : {NoDate, DateText(5), JunkDate},
   description : {<<>>, <<"f","l"," ">>},
   mc : {<<>>}, mt : {<<>>}, enclosure : {<<>>}, img : {<<>>}]

InitParse ==
  /\ variant \in Variants
  /\ IdleHandler
  /\ item \in Blocks /\ emitted = Null
  /\ input = <<>> /\ kept = Null
  /\ fetch = <<>>

\* one pass of the parser's loop over the block
runParse ==
  /\ emitted = Null
  /\ emitted' = Some(parseBlock(variant, item, 1, now))
  /\ UNCHANGED <<variant, hvars, item, dvars, fvars>>

SpecParse == InitParse /\ [][runParse]_vars

\* ----------------------------------------------------------- thumbnail run
McUrl == HTTP \o <<":","/","/","c">>
MtUrl == HTTP \o <<":","/","/","t">>
EncUrl == HTTP \o <<"s",":","/","/","e">>
ImgUrl == HTTP \o <<":","/","/","i">>
RelUrl == <<"/","r">>
ImageJpeg == IMAGE \o <<"/","j","p","e","g">>
AudioMpeg == <<"a","u","d","i","o","/","m","p","e","g">>

Attr(name, value) == [name |-> name, value |-> value]

\* <enclosure type=".." url=".."/>, <enclosure url=".." type=".."/>,
\* <enclosure url=".."/>, or no enclosure element
Enclosures ==
  {<<>>,
   <<Attr("type", ImageJpeg), Attr("url", EncUrl)>>,
   <<Attr("url", EncUrl), Attr("type", ImageJpeg)>>,
   <<Attr("type", AudioMpeg), Attr("url", EncUrl)>>,
   <<Attr("url", EncUrl), Attr("length", <<"1">>)>>,
   <<Attr("type", ImageJpeg), Attr("url", RelUrl)>>}

\* valid, relevant, dated items that differ in their thumbnail markup
ThumbBlocks ==
  [title : {FlThc}, link : {HttpUrl}, guid : {<<>>}, href : {<<>>},
   pubDate : {DateText(5)}, description : {<<>>},
   mc : {<<>>, McUrl, RelUrl},
   mt : {<<>>, MtUrl},
   enclosure : Enclosures,
   img : {<<>>, ImgUrl, RelUrl}]

InitThumb ==
  /\ variant \in Variants
  /\ IdleHandler
  /\ item \in ThumbBlocks /\ emitted = Null
  /\ input = <<>> /\ kept = Null
  /\ fetch = <<>>

SpecThumb == InitThumb /\ [][runParse]_vars

\* --------------------------------------------------------------- dedup run
Pad(n) == [i \in 1..n |-> "a"]
FlUnder == <<"f","l","_","t","h","c">>
Long1 == Pad(KEY_FL) \o <<"x">>
Long2 == Pad(KEY_FL) \o <<"y">>
TitlePool == {FlThc, FlThcLoud, FlUnder, FlCbd, Long1, Long2}

\* the article at position i of a list: its publish time tells it apart
ArticleAt(title, i) == [title |-> title, link |-> HttpUrl, _pubTimestamp |-> i]

InputLists ==
  UNION {{[i \in 1..n |-> ArticleAt(ts[i], i)] : ts \in [1..n -> TitlePool]} : n \in 0..MaxInput}

InitDedup ==
  /\ variant \in Variants
  /\ IdleHandler
  /\ item = Chars(<<>>, 0) /\ emitted = Null
  /\ input \in InputLists /\ kept = Null
  /\ fetch = <<>>

runDedup ==
  /\ kept = Null
  /\ kept' = Some(dedupOf(variant, input))
  /\ UNCHANGED <<variant, hvars, pvars, input, fvars>>

SpecDedup == InitDedup /\ [][runDedup]_vars

\* ----------------------------------------------------------- transport run
\* The promise of each source's fetch: "waiting" for a response head,
\* "receiving" the body, "resolved" or "rejected".  redirects is fetchUrl's
\* parameter; hops counts the redirects followed (it stops counting at
\* MaxHops).
StatusCodes == {200, 301, 302, 307, 308, 404, 500}
Locations == {"none", "url", "bad"}

started == [state |-> "waiting", redirects |-> REDIRECTS, hops |-> 0]

InitFetch ==
  /\ variant \in {"cjs", "fl"}
  /\ IdleHandler
  /\ item = Chars(<<>>, 0) /\ emitted = Null
  /\ input = <<>> /\ kept = Null
  /\ fetch = [promise |-> [s \in Sources |-> started], joined |-> FALSE]

more(h) == IF h < MaxHops THEN h + 1 ELSE h

\* part_000: the response callback of fetchUrl
fetchUrl(p, status, location) ==
  IF status \in {301, 302, 307, 308} /\ location # "none" /\ p.redirects > 0
  THEN IF location = "bad"
       THEN [p EXCEPT !.state = "rejected"]
       ELSE [p EXCEPT !.redirects = @ - 1, !.hops = more(@)]
  ELSE IF status # 200 THEN [p EXCEPT !.state = "rejected"]
  ELSE [p EXCEPT !.state = "receiving"]

\* news.js (CommonJS): the response callback of get
get(p, status, location) ==
  IF status \in {301, 302} /\ location # "none"
  THEN IF location = "bad"
       THEN [p EXCEPT !.state = "rejected"]
       ELSE [p EXCEPT !.hops = more(@)]
  ELSE [p EXCEPT !.state = "receiving"]

\* the server answers the request in flight
respond(s) ==
  /\ fetch.promise[s].state = "waiting"
  /\ \E status \in StatusCodes : \E location \in Locations :
       fetch' = [fetch EXCEPT !.promise[s] =
                   IF variant = "fl" THEN fetchUrl(@, status, location)
                   ELSE get(@, status, location)]
  /\ UNCHANGED <<variant, hvars, pvars, dvars>>

\* res.on('end'): the body is complete
bodyEnd(s) ==
  /\ fetch.promise[s].state = "receiving"
  /\ fetch' = [fetch EXCEPT !.promise[s].state = "resolved"]
  /\ UNCHANGED <<variant, hvars, pvars, dvars>>

\* req.on('error') / res.on('error') / the timeout of the request
fails(s) ==
  /\ fetch.promise[s].state \in {"waiting", "receiving"}
  /\ fetch' = [fetch EXCEPT !.promise[s].state = "rejected"]
  /\ UNCHANGED <<variant, hvars, pvars, dvars>>

\* Promise.allSettled over the fetches
joinFetch ==
  /\ ~fetch.joined
  /\ \A s \in Sources : fetch.promise[s].state \in {"resolved", "rejected"}
  /\ fetch' = [fetch EXCEPT !.joined = TRUE]
  /\ UNCHANGED <<variant, hvars, pvars, dvars>>

NextFetch ==
  \/ \E s \in Sources : respond(s)
  \/ \E s \in Sources : bodyEnd(s)
  \/ \E s \in Sources : fails(s)
  \/ joinFetch

SpecFetch == InitFetch /\ [][NextFetch]_vars

\* ------------------------------------------- properties: pure and transport
\* the link the parser resolved for block b
ResolvedLink(v, b) ==
  IF b.link # <<>> THEN b.link ELSE IF v = "fl" THEN b.guid ELSE b.href

\* C9: the parser emits an Article for a block if and only if the title is
\* non-empty and the resolved link is non-empty and starts with the URL
\* scheme prefix; nothing else, an unparsable date included, decides it.
C9_ValidationGate ==
  emitted # Null =>
    (Len(emitted[1]) = 1 <=>
       /\ item.title # <<>>
       /\ ResolvedLink(variant, item) # <<>>
       /\ startsWith(ResolvedLink(variant, item), HTTP))

\* the fingerprint of a title: its first n characters, lower-cased, every
\* character that is no letter or digit removed
Fingerprint(title, n) == SelectSeq(toLowerCase(slice(title, n)), IsLowerAlnum)
KeyLength(v) == CASE v = "fl" -> KEY_FL [] v = "cjs" -> KEY_CJS [] v = "esm" -> KEY_ESM

\* C6: no two articles of the output share a fingerprint, and the output
\* is the input without every article whose fingerprint an earlier article
\* of the input has.
C6_FirstSeenWins ==
  kept # Null =>
    LET n == KeyLength(variant)
        K == kept[1]
        first == {i \in DOMAIN input :
                    \A j \in 1..(i - 1) :
                      Fingerprint(input[j].title, n) # Fingerprint(input[i].title, n)}
    IN /\ \A i, j \in DOMAIN K :
            i < j => Fingerprint(K[i].title, n) # Fingerprint(K[j].title, n)
       /\ Range(K) = {input[i] : i \in first}
       /\ \A i, j \in DOMAIN K : i < j => K[i]._pubTimestamp < K[j]._pubTimestamp

\* C10: whatever the servers answer, a fetch follows at most a fixed number
\* of redirects (the five of fetchUrl) before it settles.
C10_BoundedRedirects ==
  \A s \in Sources : fetch.promise[s].hops <= REDIRECTS

\* --------------------------------------------------- properties: handler
Answered(r) == req[r].pc = "done" /\ req[r].method = "GET"
Rebuilt(r) == Answered(r) /\ ~req[r].hit
Body(r) == req[r].resp[1].body[1]
HasArticles(c) == c.data # Null /\ Len(c.data[1].articles) > 0

\* C1: whenever the cache holds a payload with at least one article, a
\* rebuild that produces zero articles leaves the cache entry (payload and
\* build timestamp) as it was.
C1_NoOverwriteWithEmpty ==
  [][\A r \in Requests :
       (/\ req[r].pc = "fetching" /\ req'[r].pc = "done"
        /\ HasArticles(cache)
        /\ Len(req'[r].resp[1].body[1].articles) = 0)
       => cache' = cache]_vars

\* C2: a GET arriving at time now is a hit exactly when a payload is stored
\* and now - builtAt < TTL; a hit answers with the stored payload, starts no
\* fetch and leaves the cache alone; anything else is a miss that starts the
\* rebuild (one pending fetch per source).
C2_CacheFreshness ==
  [][\A r \in Requests :
       (req[r].pc = "idle" /\ req'[r].pc # "idle" /\ req'[r].method = "GET")
       => IF cache.data # Null /\ now - cache.ts < CACHE_TTL
          THEN /\ req'[r].pc = "done" /\ req'[r].hit
               /\ req'[r].resp = Some([status |-> 200, xcache |-> "HIT", body |-> cache.data])
               /\ \A s \in Sources : req'[r].results[s].status = "none"
               /\ cache' = cache
          ELSE /\ req'[r].pc = "fetching" /\ ~req'[r].hit
               /\ \A s \in Sources : req'[r].results[s].status = "pending"]_vars

\* a hit one millisecond before the entry expires
C2_Witness ==
  \E r \in Requests :
    /\ Answered(r) /\ req[r].hit
    /\ req[r].at = cache.ts + CACHE_TTL - 1
    /\ req[r].resp[1].body = cache.data

\* C3: under every interleaving of concurrent rebuilds the cache entry is
\* either the empty entry or the whole (payload, builtAt) pair of the last
\* store performed, and its payload is the payload of one finished rebuild.
C3_WholeEntry ==
  /\ cache = (IF lastStore = Null THEN EmptyCache ELSE lastStore[1])
  /\ cache.data # Null =>
       \E r \in Requests : Rebuilt(r) /\ req[r].resp[1].body = cache.data

\* two rebuilds that started together have both stored; the later store won
C3_Witness ==
  /\ clients >= 2
  /\ req[1].at = req[2].at
  /\ Rebuilt(1) /\ Rebuilt(2)
  /\ Body(1).count > 0 /\ Body(2).count > 0
  /\ Body(1) # Body(2)
  /\ cache.data = Some(Body(1))

\* the values of the fulfilled results, first source first
RECURSIVE ConfigConcat(_, _)
ConfigConcat(results, n) ==
  IF n = 0 THEN <<>>
  ELSE ConfigConcat(results, n - 1)
       \o (IF results[n].status = "fulfilled" THEN results[n].value ELSE <<>>)

\* C4: a rebuild answers 200 only after every source has settled, and its
\* payload is built from exactly the articles of the sources that succeeded;
\* a failed source contributes none.
C4_FullJoin ==
  \A r \in Requests : Rebuilt(r) =>
    /\ \A s \in Sources : req[r].results[s].status \in {"fulfilled", "rejected"}
    /\ req[r].resp[1].status = 200
    /\ Range(req[r].raw) =
         UNION {Range(req[r].results[s].value) :
                  s \in {x \in Sources : req[r].results[x].status = "fulfilled"}}
    /\ \A s \in Sources : req[r].results[s].status = "rejected" =>
         req[r].results[s].value = <<>>
    /\ Body(r).ok /\ Body(r).articles = articlesOf(variant, req[r].raw)

\* one source failed, another gave articles, and the response holds them
C4_Witness ==
  \E r \in Requests : \E s, f \in Sources :
    /\ Rebuilt(r)
    /\ req[r].results[f].status = "rejected"
    /\ req[r].results[s].status = "fulfilled" /\ Len(req[r].results[s].value) > 0
    /\ Body(r).count = Len(req[r].results[s].value)

\* C5: whatever the completion order, the list handed to dedup is the
\* successful sources' lists in configuration order, so of two articles
\* with one dedup key the one of the earlier-configured source survives.
C5_ConfigOrder ==
  \A r \in Requests : Rebuilt(r) =>
    /\ req[r].raw = ConfigConcat(req[r].results, nsrc)
    /\ \A i \in DOMAIN Body(r).articles : \A s \in Sources : \A j \in DOMAIN req[r].results[s].value :
         LET a == Body(r).articles[i]
             b == req[r].results[s].value[j]
             from(x) == IF "_sourceLabel" \in DOMAIN x THEN x._sourceLabel ELSE x.sourceLabel
         IN keyOf(variant, a.title) = keyOf(variant, b.title) => from(a) <= from(b)

\* the later-configured source completed first, and both hold one dedup key
C5_Witness ==
  \E r \in Requests :
    /\ Rebuilt(r)
    /\ req[r].order[1] > req[r].order[2]
    /\ \E i \in DOMAIN req[r].results[1].value : \E j \in DOMAIN req[r].results[2].value :
         keyOf(variant, req[r].results[1].value[i].title)
           = keyOf(variant, req[r].results[2].value[j].title)

\* the position of article x in the list s
Pos(s, x) == CHOOSE k \in DOMAIN s : s[k] = x

\* C7: the articles of every payload returned or cached are in
\* non-increasing order of publish time, and of two with one publish time
\* the one that is first in the deduplicated input is first.
C7_Ranking ==
  /\ \A r \in Requests : Answered(r) =>
       \A i, j \in DOMAIN Body(r).articles :
         i < j => timeOf(Body(r).articles[i]) >= timeOf(Body(r).articles[j])
  /\ cache.data # Null =>
       \A i, j \in DOMAIN cache.data[1].articles :
         i < j => timeOf(cache.data[1].articles[i]) >= timeOf(cache.data[1].articles[j])
  /\ \A r \in Requests : Rebuilt(r) =>
       LET A == Body(r).articles
           D == dedupOf(variant, req[r].raw)
       IN \A i, j \in DOMAIN A :
            (i < j /\ timeOf(A[i]) = timeOf(A[j])) => Pos(D, A[i]) < Pos(D, A[j])

\* a response with two articles of one publish time and an older one
C7_Witness ==
  \E r \in Requests :
    /\ Rebuilt(r)
    /\ \E i, j, k \in DOMAIN Body(r).articles :
         /\ i < j /\ j < k
         /\ timeOf(Body(r).articles[i]) = timeOf(Body(r).articles[j])
         /\ timeOf(Body(r).articles[j]) > timeOf(Body(r).articles[k])

\* C8: every payload returned or cached has count equal to the length of
\* its articles list, and that length never exceeds the configured maximum.
C8_Truncation ==
  \A r \in Requests : Answered(r) =>
    /\ Body(r).count = Len(Body(r).articles)
    /\ Len(Body(r).articles) <= SLICE_FL

\* the type attribute of the enclosure element e, '' when it has none
TypeOf(e) ==
  IF \E i \in DOMAIN e : e[i].name = "type"
  THEN e[CHOOSE i \in DOMAIN e : e[i].name = "type"].value
  ELSE <<>>

\* the first available of media:content, media:thumbnail, an enclosure whose
\* type indicates an image, the first img of the raw description
FirstAvailable(b) ==
  IF b.mc # <<>> THEN b.mc
  ELSE IF b.mt # <<>> THEN b.mt
  ELSE IF /\ startsWith(toLowerCase(TypeOf(b.enclosure)), IMAGE)
          /\ enclosureUrl(b.enclosure) # <<>>
       THEN enclosureUrl(b.enclosure)
  ELSE b.img

\* C11: thumbnail priority.  For every item block the parser emits, the
\* thumbnail is the first available of the media:content URL, the
\* media:thumbnail URL, the URL of an enclosure whose type indicates an
\* image, and the first image reference of the raw description; an
\* enclosure without an image type is never used, and a resolved value that
\* does not start with the scheme prefix gives the empty thumbnail.
C11_ThumbnailPriority ==
  (emitted # Null /\ emitted[1] # <<>>) =>
    emitted[1][1].thumbnail =
      IF startsWith(FirstAvailable(item), HTTP) THEN FirstAvailable(item) ELSE <<>>

====
